---- MODULE Spec2Model ----
(***************************************************************************)
(* State-machine model of RutenItemNamesDataset: a SQLite store holding    *)
(* the table ruten_items(id INTEGER PRIMARY KEY, G_NAME TEXT) built from   *)
(* parquet files, a metadata(key, value) table caching the row count, and  *)
(* the indexed reader __getitem__ with html.unescape.                      *)
(***************************************************************************)
EXTENDS Integers, Sequences, FiniteSets, TLC

(***************************************************************************)
(* Bounds of the model.                                                    *)
(***************************************************************************)
\* largest file cap (top_n) tried, besides None
MaxTopN == 3
\* rows another process may append to the table after a build
MaxAppend == 2

(***************************************************************************)
(* Values.  A G_NAME cell is SQL NULL or a text; a text is a sequence of   *)
(* characters.                                                             *)
(***************************************************************************)
Null == [isnull |-> TRUE, text |-> <<>>]
Text(s) == [isnull |-> FALSE, text |-> s]

\* the code point U+226A, which html5 maps "ll;" to
MuchLess == "U+226A"

(***************************************************************************)
(* html.unescape, restricted to the characters & l t ; F (the entities of  *)
(* html.entities.html5 spelled with these letters are lt, lt; and ll;).    *)
(***************************************************************************)
\* html.entities.html5 lookup: the replacement text, or <<>> when s is no key
Html5(s) ==
  IF s = <<"l", "t">> \/ s = <<"l", "t", ";">> THEN <<"<">>
  ELSE IF s = <<"l", "l", ";">> THEN <<MuchLess>>
  ELSE <<>>

\* the class [^\t\n\f <&#;] of the charref regular expression
IsNameChar(c) == c \notin {"&", ";", "<", " ", "#"}

RECURSIVE NameRun(_)
\* length of the longest prefix of s made of name characters
NameRun(s) ==
  IF s = <<>> \/ ~IsNameChar(Head(s)) THEN 0 ELSE 1 + NameRun(Tail(s))

RECURSIVE LongestPrefix(_, _)
\* html._replace_charref, named branch: for x in range(len(s)-1, 1, -1)
LongestPrefix(s, x) ==
  IF x <= 1 THEN <<"&">> \o s
  ELSE IF Html5(SubSeq(s, 1, x)) # <<>>
       THEN Html5(SubSeq(s, 1, x)) \o SubSeq(s, x + 1, Len(s))
       ELSE LongestPrefix(s, x - 1)

\* html._replace_charref for a named reference s (the text after the &)
ReplaceCharref(s) ==
  IF Html5(s) # <<>> THEN Html5(s) ELSE LongestPrefix(s, Len(s) - 1)

RECURSIVE Unescape(_)
\* html.unescape: every leftmost match of &name;? is replaced, one pass
Unescape(s) ==
  IF s = <<>> THEN <<>>
  ELSE IF Head(s) # "&" THEN <<Head(s)>> \o Unescape(Tail(s))
  ELSE LET run == NameRun(Tail(s))
           n == IF run > 32 THEN 32 ELSE run
           semi == Len(s) > n + 1 /\ s[n + 2] = ";"
           m == IF semi THEN n + 1 ELSE n
       IN IF n = 0 THEN <<"&">> \o Unescape(Tail(s))
          ELSE ReplaceCharref(SubSeq(s, 2, m + 1))
                 \o Unescape(SubSeq(s, m + 2, Len(s)))

(***************************************************************************)
(* str(int) and int(str) of the cached row count.                          *)
(***************************************************************************)
Digits == <<"0", "1", "2", "3", "4", "5", "6", "7", "8", "9">>

RECURSIVE IntToStr(_)
\* f'{self._num_rows}' for a non-negative count
IntToStr(n) ==
  IF n < 10 THEN <<Digits[n + 1]>>
  ELSE IntToStr(n \div 10) \o <<Digits[(n % 10) + 1]>>

DigitValue(c) == CHOOSE d \in 0..9 : Digits[d + 1] = c

RECURSIVE StrToInt(_)
\* int(value) of a decimal text
StrToInt(s) ==
  IF Len(s) = 1 THEN DigitValue(s[1])
  ELSE 10 * StrToInt(SubSeq(s, 1, Len(s) - 1)) + DigitValue(s[Len(s)])

(***************************************************************************)
(* The file system: source folders with their listings in os.listdir       *)
(* order.  A file has a name (stem, suffix) and either a readable G_NAME   *)
(* column or content that pd.read_parquet rejects.                         *)
(***************************************************************************)
T1 == <<"F", "&", "l", "t", ";", "t">>
T2 == <<"&", "l", "t", "l">>
T3 == <<"&", "l", "l", ";">>
T4 == <<"&", "l", ";", "&">>
T5 == <<"l", "t">>

fA == [name |-> <<"a", ".parquet">>, ok |-> TRUE,
       col |-> <<Text(T1), Text(T2), Text(T5)>>]
fB == [name |-> <<"b", ".parquet">>, ok |-> TRUE,
       col |-> <<Text(T3), Text(T4)>>]
fN == [name |-> <<"n", ".parquet">>, ok |-> TRUE,
       col |-> <<Text(T5), Null, Text(T1)>>]
fBad == [name |-> <<"c", ".parquet">>, ok |-> FALSE, col |-> <<>>]
fTxt == [name |-> <<"notes", ".txt">>, ok |-> FALSE, col |-> <<>>]

\* path_to_ruten_items_folder=None
NoFolder == "None"

Folders == {"d1", "d2", "d3"}
\* a path at which no directory exists
MissingFolder == "missing"
\* the working directories a process may run in
Cwds == {"w1", "w2"}

Listing(path) ==
  CASE path = "d1" -> <<fA, fTxt, fB>>
    [] path = "d2" -> <<fB, fBad, fA>>
    [] path = "d3" -> <<fN, fB>>
    [] path = "w1" -> <<fTxt>>
    [] path = "w2" -> <<fTxt, fB>>

\* filename.endswith('.parquet')
EndsWithParquet(name) == name[Len(name)] = ".parquet"

\* os.listdir(folder): None lists the working directory
ListDir(folder, cwd) ==
  IF folder = NoFolder THEN [exc |-> "none", files |-> Listing(cwd)]
  ELSE IF folder \in Folders THEN [exc |-> "none", files |-> Listing(folder)]
  ELSE [exc |-> "FileNotFoundError", files |-> <<>>]

\* the loop collecting os.path.join(folder, filename) of the .parquet names;
\* os.path.join(None, filename) raises TypeError
CollectParquet(folder, files) ==
  LET sel == SelectSeq(files, LAMBDA f : EndsWithParquet(f.name))
  IN IF folder = NoFolder /\ sel # <<>>
     THEN [exc |-> "TypeError", files |-> <<>>]
     ELSE [exc |-> "none", files |-> sel]

\* top_n: None or an integer
NoTopN == [none |-> TRUE, n |-> 0]
TopN(k) == [none |-> FALSE, n |-> k]
TopNs == {NoTopN} \cup {TopN(k) : k \in 0..MaxTopN}

SliceToAll(files, top_n) == files
\* parquet_files[:top_n]
SliceTo(files, top_n) ==
  IF top_n.none THEN files
  ELSE IF top_n.n >= 0
       THEN SubSeq(files, 1, IF top_n.n < Len(files) THEN top_n.n ELSE Len(files))
       ELSE SubSeq(files, 1, Len(files) + top_n.n)

(***************************************************************************)
(* The store.  A table is NoTable or a set of rows.                        *)
(***************************************************************************)
NoTable == {[absent |-> TRUE]}

Ids(items) == {r.id : r \in items}
MaxId(items) == CHOOSE m \in Ids(items) : \A k \in Ids(items) : k <= m

NextRowidSkips(items) == IF items = {} THEN 1 ELSE MaxId(items) + 2
\* the id SQLite gives a row inserted without one (INTEGER PRIMARY KEY)
NextRowid(items) == IF items = {} THEN 1 ELSE MaxId(items) + 1

\* INSERT INTO ruten_items (G_NAME) VALUES (?)
Insert(items, v) == items \cup {[id |-> NextRowid(items), G_NAME |-> v]}

RECURSIVE ExecuteMany(_, _)
\* cursor.executemany over the rows of df[[col]].values, in order
ExecuteMany(items, vals) ==
  IF vals = <<>> THEN items
  ELSE ExecuteMany(Insert(items, Head(vals)), Tail(vals))

NeedsCreateInverted(create_db, exists) == create_db \/ exists
\* create_db or not os.path.exists(self._db_path)
NeedsCreate(create_db, exists) == create_db \/ ~exists

LoadStepSkipsBad(files, idx, items) ==
  LET f == files[idx + 1]
  IN [exc |-> "none", idx |-> idx + 1,
      items |-> IF f.ok THEN ExecuteMany(items, f.col) ELSE items]
\* one iteration of the loop over parquet_files: process_parquet_file(file),
\* commit; pd.read_parquet raising ends the load with nothing inserted
LoadStep(files, idx, items) ==
  LET f == files[idx + 1]
  IN IF f.ok
     THEN [exc |-> "none", idx |-> idx + 1, items |-> ExecuteMany(items, f.col)]
     ELSE [exc |-> "ReadError", idx |-> idx, items |-> items]

NumRowsKey == "num_rows"

\* SELECT COUNT(*) FROM ruten_items
CountRows(items) == Cardinality(items)

LoadMetadataRecounts(items, meta) ==
  IF items = NoTable
  THEN [exc |-> "OperationalError", num_rows |-> 0, metadata |-> {}]
  ELSE [exc |-> "none", num_rows |-> CountRows(items),
        metadata |-> {[key |-> NumRowsKey, value |-> IntToStr(CountRows(items))]}]
LoadMetadataForgets(items, meta) ==
  LET table == IF meta = NoTable THEN {} ELSE meta
  IN IF items = NoTable
     THEN [exc |-> "OperationalError", num_rows |-> 0, metadata |-> table]
     ELSE [exc |-> "none", num_rows |-> CountRows(items), metadata |-> table]
\* the metadata block of __init__: CREATE TABLE IF NOT EXISTS metadata; read
\* the cached num_rows; when that fails count the rows and insert the count
\* (the count itself fails when the store has no ruten_items table)
LoadMetadata(items, meta) ==
  LET table == IF meta = NoTable THEN {} ELSE meta
      hit == {r \in table : r.key = NumRowsKey}
  IN IF hit # {}
     THEN [exc |-> "none",
           num_rows |-> StrToInt((CHOOSE r \in hit : TRUE).value),
           metadata |-> table]
     ELSE IF items = NoTable
     THEN [exc |-> "OperationalError", num_rows |-> 0, metadata |-> table]
     ELSE [exc |-> "none", num_rows |-> CountRows(items),
           metadata |-> table \cup
              {[key |-> NumRowsKey, value |-> IntToStr(CountRows(items))]}]

\* __getitem__: the outcome of reading position index
GetItemOf(items, index) ==
  LET key == index + 1
      rows == IF items = NoTable THEN {} ELSE {r \in items : r.id = key}
  IN IF items = NoTable THEN [exc |-> "OperationalError", value |-> <<>>]
     ELSE IF rows = {} THEN [exc |-> "TypeError", value |-> <<>>]
     ELSE LET row == (CHOOSE r \in rows : TRUE).G_NAME
          IN IF row.isnull THEN [exc |-> "IndexError", value |-> <<>>]
             ELSE [exc |-> "none", value |-> Unescape(row.text)]

(***************************************************************************)
(* State.                                                                  *)
(***************************************************************************)
VARIABLES
  dbExists,       \* os.path.exists(db_path)
  ruten_items,    \* the data table of the store
  metadata,       \* the metadata table of the store
  pc,             \* "idle", or "loading" inside _create_db's loop
  self,           \* the dataset object: constructed or not, and _num_rows
  parquet_files,  \* _create_db's list of selected files
  idx,            \* files of parquet_files processed and committed
  result,         \* outcome of the last __init__ or __getitem__ call
  call,           \* arguments of the last __init__ call
  loaded,         \* columns committed into the store, in order (history)
  appended,       \* values appended by other processes since the build (history)
  reads,          \* pd.read_parquet calls made by the last load (history)
  aborted,        \* the load that built the store ended in an error (history)
  sinceOpen       \* rows appended by other processes since the last __init__

vars == <<dbExists, ruten_items, metadata, pc, self, parquet_files, idx,
          result, call, loaded, appended, reads, aborted, sinceOpen>>

\* what __init__ found when it was called (history)
Found ==
  [rows |-> IF ruten_items = NoTable THEN 0 ELSE Cardinality(ruten_items),
   built |-> self.ready /\ call.create /\ sinceOpen = 0,
   num_rows |-> self._num_rows]

NoCall == [create_db |-> FALSE, folder |-> NoFolder, top_n |-> NoTopN,
           cwd |-> "w1", create |-> FALSE,
           found |-> [rows |-> 0, built |-> FALSE, num_rows |-> 0]]

OpenResult(exc) == [op |-> "open", exc |-> exc, index |-> 0, value |-> <<>>]

Init ==
  /\ dbExists = FALSE
  /\ ruten_items = NoTable
  /\ metadata = NoTable
  /\ pc = "idle"
  /\ self = [ready |-> FALSE, _num_rows |-> 0]
  /\ parquet_files = <<>>
  /\ idx = 0
  /\ result = [op |-> "none", exc |-> "none", index |-> 0, value |-> <<>>]
  /\ call = NoCall
  /\ loaded = <<>>
  /\ appended = <<>>
  /\ reads = 0
  /\ aborted = FALSE
  /\ sinceOpen = 0

(***************************************************************************)
(* __init__ up to the loop of _create_db (create path), or the whole of    *)
(* __init__ (reopen path).                                                 *)
(***************************************************************************)
OpenCreate(create_db, folder, top_n, cwd) ==
  LET listing == ListDir(folder, cwd)
      coll == CollectParquet(folder, listing.files)
      exc == IF listing.exc # "none" THEN listing.exc ELSE coll.exc
  IN /\ pc = "idle"
     /\ NeedsCreate(create_db, dbExists)
     /\ call' = [create_db |-> create_db, folder |-> folder, top_n |-> top_n,
                 cwd |-> cwd, create |-> TRUE, found |-> Found]
     \* os.remove, sqlite3.connect, CREATE TABLE ruten_items, commit
     /\ dbExists' = TRUE
     /\ ruten_items' = {}
     /\ metadata' = NoTable
     /\ loaded' = <<>>
     /\ appended' = <<>>
     /\ sinceOpen' = 0
     /\ reads' = 0
     /\ idx' = 0
     /\ self' = [ready |-> FALSE, _num_rows |-> 0]
     /\ aborted' = (exc # "none")
     /\ IF exc # "none"
        THEN /\ pc' = "idle"
             /\ parquet_files' = <<>>
             /\ result' = OpenResult(exc)
        ELSE /\ pc' = "loading"
             /\ parquet_files' = SliceTo(coll.files, top_n)
             /\ result' = OpenResult("none")

OpenExisting(create_db, folder, top_n, cwd) ==
  LET m == LoadMetadata(ruten_items, metadata)
  IN /\ pc = "idle"
     /\ ~NeedsCreate(create_db, dbExists)
     /\ call' = [create_db |-> create_db, folder |-> folder, top_n |-> top_n,
                 cwd |-> cwd, create |-> FALSE, found |-> Found]
     \* sqlite3.connect
     /\ dbExists' = TRUE
     /\ metadata' = m.metadata
     /\ self' = [ready |-> m.exc = "none", _num_rows |-> m.num_rows]
     /\ result' = OpenResult(m.exc)
     /\ parquet_files' = <<>>
     /\ idx' = 0
     /\ reads' = 0
     /\ sinceOpen' = 0
     /\ UNCHANGED <<ruten_items, pc, loaded, appended, aborted>>

\* one iteration of the loop of _create_db
ProcessFile ==
  LET step == LoadStep(parquet_files, idx, ruten_items)
  IN /\ pc = "loading"
     /\ idx < Len(parquet_files)
     /\ reads' = reads + 1
     /\ ruten_items' = step.items
     /\ idx' = step.idx
     /\ aborted' = (step.exc # "none")
     /\ IF step.exc # "none"
        THEN /\ pc' = "idle"
             /\ result' = OpenResult(step.exc)
             /\ UNCHANGED loaded
        ELSE /\ loaded' = Append(loaded, parquet_files[idx + 1].col)
             /\ UNCHANGED <<pc, result>>
     /\ UNCHANGED <<dbExists, metadata, self, parquet_files, call, appended,
                    sinceOpen>>

\* the rest of __init__ after _create_db returns: the metadata block
FinishCreate ==
  LET m == LoadMetadata(ruten_items, metadata)
  IN /\ pc = "loading"
     /\ idx = Len(parquet_files)
     /\ pc' = "idle"
     /\ metadata' = m.metadata
     /\ self' = [ready |-> m.exc = "none", _num_rows |-> m.num_rows]
     /\ result' = OpenResult(m.exc)
     /\ UNCHANGED <<dbExists, ruten_items, parquet_files, idx, call, loaded,
                    appended, reads, aborted, sinceOpen>>

\* __getitem__(index)
GetItem(index) ==
  LET r == GetItemOf(ruten_items, index)
  IN /\ pc = "idle"
     /\ self.ready
     /\ result' = [op |-> "getitem", exc |-> r.exc, index |-> index,
                   value |-> r.value]
     /\ UNCHANGED <<dbExists, ruten_items, metadata, pc, self, parquet_files,
                    idx, call, loaded, appended, reads, aborted, sinceOpen>>

\* another process inserts a row into ruten_items and leaves metadata alone
ExternalAppend(v) ==
  /\ pc = "idle"
  /\ dbExists
  /\ ruten_items # NoTable
  /\ Len(appended) < MaxAppend
  /\ ruten_items' = Insert(ruten_items, v)
  /\ appended' = Append(appended, v)
  /\ sinceOpen' = sinceOpen + 1
  /\ UNCHANGED <<dbExists, metadata, pc, self, parquet_files, idx, result,
                 call, loaded, reads, aborted>>

AppendValues == {Text(T2), Text(T5)}
Indices == -2..(CountRows(ruten_items) + 1)
FolderArgs == Folders \cup {NoFolder, MissingFolder}

\* the working directory matters to __init__ only through os.listdir(None)
CwdsFor(f) == IF f = NoFolder THEN Cwds ELSE {"w1"}
\* a reopen never looks at the folder or the cap: two of each are tried
ReopenFolders == {NoFolder, "d1"}
ReopenTopNs == {NoTopN, TopN(1)}

Next ==
  \/ \E c \in BOOLEAN, f \in FolderArgs, n \in TopNs :
       \E w \in CwdsFor(f) : OpenCreate(c, f, n, w)
  \/ \E f \in ReopenFolders, n \in ReopenTopNs :
       \E w \in CwdsFor(f) : OpenExisting(FALSE, f, n, w)
  \/ ProcessFile
  \/ FinishCreate
  \/ \E i \in Indices : GetItem(i)
  \/ \E v \in AppendValues : ExternalAppend(v)

Spec == Init /\ [][Next]_vars

(***************************************************************************)
(* Vocabulary of the properties.                                           *)
(***************************************************************************)
\* the table whose keys 1..Len(vals) hold vals in order
TableOf(vals) == {[id |-> i, G_NAME |-> vals[i]] : i \in 1..Len(vals)}

RECURSIVE Flatten(_)
Flatten(cols) == IF cols = <<>> THEN <<>> ELSE Head(cols) \o Flatten(Tail(cols))

\* the .parquet files of the folder of the last call, in listing order
Selected == SelectSeq(Listing(call.folder), LAMBDA f : EndsWithParquet(f.name))
\* how many of them a cap admits
Admitted ==
  IF call.top_n.none \/ call.top_n.n > Len(Selected)
  THEN Len(Selected) ELSE call.top_n.n

RECURSIVE SumRows(_, _)
\* rows of the designated column in the first n files
SumRows(files, n) == IF n = 0 THEN 0 ELSE Len(files[n].col) + SumRows(files, n - 1)

RECURSIVE SumNonNull(_, _)
SumNonNull(files, n) ==
  IF n = 0 THEN 0
  ELSE Len(SelectSeq(files[n].col, LAMBDA v : ~v.isnull)) + SumNonNull(files, n - 1)

\* the value cached under 'num_rows'
Cached == StrToInt((CHOOSE r \in metadata : r.key = NumRowsKey).value)
HasCached == metadata # NoTable /\ \E r \in metadata : r.key = NumRowsKey

\* this step is a call of __init__ (or leaves everything as it is)
IsOpenCall == pc = "idle" /\ result'.op = "open" /\ sinceOpen' = 0

\* the last __init__ built the store and returned
Built == pc = "idle" /\ self.ready /\ call.create

\* position of the first unreadable file of parquet_files
BadAt(k) ==
  /\ k \in 1..Len(parquet_files)
  /\ ~parquet_files[k].ok
  /\ \A j \in 1..(k - 1) : parquet_files[j].ok

(***************************************************************************)
(* Properties.                                                             *)
(***************************************************************************)

\* C1: a read at an index outside [0, len) raises the out-of-range
\* IndexError, and nothing else: no value is returned, no other error raised.
C1_OutOfRangeRaisesIndexError ==
  (result.op = "getitem" /\ (result.index < 0 \/ result.index >= self._num_rows))
    => result.exc = "IndexError"

\* C2: on a table produced by the bulk load, a read at any index inside
\* [0, len) succeeds and returns the unescaped text of the record with key
\* index + 1.
C2_InRangeReadReturnsText ==
  (Built /\ appended = <<>> /\ result.op = "getitem"
     /\ result.index >= 0 /\ result.index < self._num_rows)
    => /\ result.exc = "none"
       /\ \E r \in ruten_items :
            /\ r.id = result.index + 1
            /\ ~r.G_NAME.isnull
            /\ result.value = Unescape(r.G_NAME.text)

\* C3: after a rebuild (create_db=True) from folder D with cap N returns,
\* len is the sum of the column lengths of the first N selected files of D,
\* whatever the store held before.
C3_RebuildLen ==
  (Built /\ call.create_db /\ call.folder \in Folders)
    => self._num_rows = SumRows(Selected, Admitted)

\* C3 witness: a store of 7 rows was rebuilt from d1 with cap 1, and len is 3.
C3_Witness ==
  /\ Built /\ call.create_db /\ call.folder = "d1" /\ call.top_n = TopN(1)
  /\ call.found.rows = 7
  /\ self._num_rows = 3

\* C4: a call with create_db=False on the store a finished build left, with
\* nothing appended in between, returns at once with the same len and the
\* same outcome of read(i) for every i in [0, len); it reads no source file
\* and leaves the rows as they are.
C4_IdempotentReopen ==
  [][(IsOpenCall /\ Built /\ sinceOpen = 0 /\ ~call'.create_db)
       => /\ pc' = "idle" /\ self'.ready
          /\ self'._num_rows = self._num_rows
          /\ \A i \in 0..(self._num_rows - 1) :
               GetItemOf(ruten_items', i) = GetItemOf(ruten_items, i)
          /\ ruten_items' = ruten_items
          /\ reads' = 0 /\ parquet_files' = <<>>]_vars

\* C4 witness: a store of 5 rows was built, reopened, and len is 5.
C4_Witness ==
  /\ pc = "idle" /\ self.ready /\ ~call.create /\ call.found.built
  /\ call.found.num_rows = 5 /\ self._num_rows = 5 /\ sinceOpen = 0

\* C5: when rows were appended by another process after 'num_rows' was
\* cached, a call with create_db=False returns len equal to the cached count,
\* which is less than the number of rows, and leaves the cached entry alone.
C5_StaleLen ==
  [][(IsOpenCall /\ dbExists /\ HasCached /\ sinceOpen > 0 /\ ~call'.create_db)
       => /\ self'.ready
          /\ self'._num_rows = Cached
          /\ self'._num_rows < CountRows(ruten_items')
          /\ metadata' = metadata]_vars

\* C5 witness: 5 rows were cached, 2 were appended, and the reopened table
\* has len 5 over 7 rows.
C5_Witness ==
  /\ pc = "idle" /\ self.ready /\ ~call.create /\ sinceOpen = 0
  /\ call.found.rows = 7 /\ CountRows(ruten_items) = 7
  /\ self._num_rows = 5 /\ HasCached /\ Cached = 5

\* C6: a build (create_db=True or no store at the path) without a source
\* folder fails: it never returns a usable table.
C6_NoFolderFails ==
  ~(pc = "idle" /\ call.create /\ call.folder = NoFolder /\ self.ready)

\* C7: after the bulk load the number of rows is the number of non-null
\* entries of the column over the selected files.
C7_RowsAreNonNullEntries ==
  (Built /\ call.folder \in Folders /\ appended = <<>>)
    => CountRows(ruten_items) = SumNonNull(Selected, Admitted)

\* C8: when the k-th selected file cannot be read, the load ends in that
\* error after k reads, and the table holds the rows of the first k-1 files
\* in order (followed by what other processes appended later).
C8_AbortKeepsCommitted ==
  \A k \in 1..Len(parquet_files) :
    (pc = "idle" /\ call.create /\ BadAt(k))
      => /\ ~self.ready /\ aborted
         /\ result.op = "open" /\ result.exc = "ReadError"
         /\ reads = k /\ idx = k - 1
         /\ ruten_items =
              TableOf(Flatten([j \in 1..(k - 1) |-> parquet_files[j].col])
                        \o appended)

\* C8 witness: the second file of d2 was unreadable, and the two rows of the
\* first are in the table.
C8_Witness ==
  /\ pc = "idle" /\ call.create /\ BadAt(2) /\ result.exc = "ReadError"
  /\ appended = <<>> /\ CountRows(ruten_items) = 2 /\ reads = 2

\* C9: the keys of the table are 1..n, the rows of the files loaded so far
\* come in file order and in-file order, followed by the rows appended
\* later; a step that is not a rebuild removes and renumbers no row.
C9_KeysContiguous ==
  /\ [](ruten_items # NoTable =>
          /\ Ids(ruten_items) = 1..Cardinality(ruten_items)
          /\ ruten_items = TableOf(Flatten(loaded) \o appended)
          /\ (call.create =>
                loaded = [j \in 1..idx |-> parquet_files[j].col]))
  /\ [][(ruten_items # NoTable /\ ~(IsOpenCall /\ call'.create))
          => ruten_items \subseteq ruten_items']_vars

\* C9 witness: in the middle of a load, the first file of d1 is in and the
\* second is not.
C9_Witness ==
  /\ pc = "loading" /\ idx = 1 /\ Len(parquet_files) = 2
  /\ Ids(ruten_items) = 1..3

\* C10: an aborted load leaves the store without a metadata entry; the next
\* call with create_db=False does not rebuild: it counts the partial table,
\* caches that count, and every later such call returns the cached count.
C10_PartialStoreAdopted ==
  /\ []((aborted /\ ~self.ready) => (dbExists /\ metadata = NoTable))
  /\ [][(IsOpenCall /\ aborted /\ ~call'.create_db)
          => /\ pc' = "idle" /\ self'.ready /\ aborted'
             /\ ruten_items' = ruten_items
             /\ HasCached'
             /\ self'._num_rows = Cached'
             /\ IF self.ready
                THEN self'._num_rows = self._num_rows /\ metadata' = metadata
                ELSE self'._num_rows = CountRows(ruten_items)]_vars

\* C10 witness: the load of d2 aborted after 2 rows, a row was appended
\* after the first reopen, and the second reopen still has len 2.
C10_Witness ==
  /\ aborted /\ pc = "idle" /\ self.ready /\ ~call.create
  /\ call.found.rows = 3 /\ self._num_rows = 2 /\ sinceOpen = 0

====
